---- MODULE Spec2Model ----
(***************************************************************************)
(* Component dependency graph of htmpl-template:                           *)
(*   template/{{name}}/{{module}}/services/htmpl_admin/graph.py            *)
(*                                                                         *)
(* The store (class ComponentGraph) holds an RDF graph: a set of triples   *)
(* <<subject, predicate, object>>.  A node is an IRI <<namespace, value>>  *)
(* (<htmpl://components/auth> is <<"htmpl", "components/auth">>) or a      *)
(* literal <<"lit", text>>.  The serialized graph (components.ttl) is the  *)
(* set of triples the builder wrote; the constructor parses it and adds    *)
(* one status:installed triple per scanned component whose path exists.    *)
(*                                                                         *)
(* The builder (build_component_ttl) walks the component directories of a  *)
(* template tree and appends one block of statements per component.toml;   *)
(* SpecBuild and SpecDeps run it, load its output and query the store.     *)
(***************************************************************************)
EXTENDS Integers, Sequences, FiniteSets, TLC

VARIABLES
    ttl,        \* the triples of the serialized graph (components.ttl)
    fs,         \* the component paths that exist under project_dir now
    fsScanned,  \* the paths that existed when the store was constructed
    graph,      \* self.graph: the store's triples
    op,         \* the query in progress or returned ("idle" when none)
    arg,        \* its argument: a sequence of URIs
    result,     \* what it returned
    raised,     \* the exception it raised ("none" when it returned)
    pc,         \* position of the property-path evaluation
    tasks,      \* start URIs whose closure is still to be evaluated
    walk,       \* the evaluation: [stack, seen, out]
    tree,       \* the template directory: component directory -> manifest
    todo,       \* the component directories the builder has not iterated yet
    lines,      \* the builder's output so far: a sequence of statements
    bpc,        \* position of the builder ("idle" when it is not running)
    source,     \* components.ttl: "missing", "present" or "malformed"
    store,      \* "ready" once a ComponentGraph has been constructed
    token,      \* SessionManager.token
    password,   \* SessionManager._password
    drawn,      \* how many secrets generate_password has drawn so far
    cookies,    \* the session tokens handed out by create_session
    installed_plugins,  \* ManagerConfig.installed_plugins
    saved,      \* installed_plugins as last written to pyproject.toml
    heap,       \* the ExceptionRecord objects: object -> its id field
    exceptions, \* InMemoryStore.exceptions: a list of objects
    exc_id_counter      \* InMemoryStore._exc_id_counter

\* the builder's and the loader's part of the state
bvars == <<tree, todo, lines, bpc, source, store>>

\* the manager's and the observability store's part of the state
mvars == <<token, password, drawn, cookies, installed_plugins, saved, heap,
           exceptions, exc_id_counter>>

vars == <<mvars, bvars, ttl, fs, fsScanned, graph, op, arg, result, raised, pc, tasks,
          walk>>

(***************************************************************************)
(* Bounds of the model.                                                    *)
(***************************************************************************)
MaxEdges == 3       \* dep:requires statements in the serialized graph
MaxPy == 2          \* dep:python statements in the serialized graph
MaxSel == 2         \* length of the list passed to resolve
RecursionLimit == 6 \* depth of the recursive path evaluation before it fails

Components == {"a", "b", "c"}       \* URIs a manifest declares
Unknown == "z"                      \* a URI no statement mentions
URIs == Components \cup {Unknown}
Packages == {"p", "q"}              \* python requirement strings

(***************************************************************************)
(* Nodes and triples.                                                      *)
(***************************************************************************)
HTMPL(uri) == <<"htmpl", uri>>
Foreign == <<"ext", "x">>
Literal(text) == <<"lit", text>>

\* STRSTARTS(STR(?x), "htmpl://")
StartsWithHtmpl(n) == n[1] = "htmpl"

\* str(x).replace(str(HTMPL), "")
StripHtmpl(n) == IF n[1] = "htmpl" THEN n[2] ELSE n[1] \o "://" \o n[2]

NameTriples == {<<HTMPL(u), "name", Literal(u)>> : u \in Components}
PossibleEdges ==
    {<<HTMPL(u), "requires", o>> :
        u \in Components, o \in {HTMPL(v) : v \in Components} \cup {Foreign}}
PossiblePy == {<<HTMPL(u), "python", Literal(p)>> : u \in Components, p \in Packages}

UpTo(S, n) == {T \in SUBSET S : Cardinality(T) <= n}

\* the objects of the triples (s, p, ?o) of g
Objects(g, s, p) == {t[3] : t \in {t \in g : t[1] = s /\ t[2] = p}}

(***************************************************************************)
(* Evaluation of the property path  <subj> dep:requires+ ?dep : a          *)
(* depth-first walk that yields every object it meets and descends only    *)
(* into an object it has not seen.  A frame is the node whose triples are  *)
(* being iterated and the objects still to come.                           *)
(***************************************************************************)
Successors(g, n) == Objects(g, n, "requires")

Frame(g, n) == [node |-> n, todo |-> Successors(g, n)]

FwdStart(g, subj) ==
    [stack |-> <<Frame(g, subj)>>, seen |-> {subj}, out |-> {}]

Top(w) == w.stack[Len(w.stack)]

\* a walk that keeps no record of the nodes it has entered
SeenNothing(w, o) == FALSE

Seen(w, o) == o \in w.seen

\* one triple (top.node, requires, o) of the iteration
FwdVisit(g, w, o) ==
    LET n == Len(w.stack)
        rest == [w.stack EXCEPT ![n].todo = @ \ {o}]
    IN  IF Seen(w, o)
        THEN [w EXCEPT !.stack = rest, !.out = @ \cup {o}]
        ELSE [stack |-> Append(rest, Frame(g, o)),
              seen |-> w.seen \cup {o},
              out |-> w.out \cup {o}]

\* the iteration of the top frame is exhausted
FwdPop(w) == [w EXCEPT !.stack = SubSeq(@, 1, Len(@) - 1)]

RECURSIVE FwdRun(_, _)
FwdRun(g, w) ==
    IF w.stack = <<>> THEN w.out
    ELSE IF Top(w).todo = {} THEN FwdRun(g, FwdPop(w))
    ELSE FwdRun(g, FwdVisit(g, w, CHOOSE o \in Top(w).todo : TRUE))

PathPlus(g, subj) == FwdRun(g, FwdStart(g, subj))

(***************************************************************************)
(* ComponentGraph                                                          *)
(***************************************************************************)
all_uris(g) ==
    LET req == {t \in g : t[2] = "requires"}
        ends == {t[1] : t \in req} \cup {t[3] : t \in req}
    IN  {StripHtmpl(n) : n \in {n \in ends : StartsWithHtmpl(n)}}

scan_installed(g, files) ==
    g \cup {<<HTMPL(u), "installed", Literal("true")>> :
                u \in {u \in all_uris(g) : u \in files}}

\* __init__ with an existing components.ttl: parse, then scan
ComponentGraph(t, files) == scan_installed(t, files)

\* get_deps following one dep:requires statement only (no "+")
get_deps_direct(g, uri) ==
    {StripHtmpl(d) : d \in {d \in Successors(g, HTMPL(uri)) : StartsWithHtmpl(d)}}

\* get_deps dropping the start URI from its own closure
get_deps_excluding_self(g, uri) ==
    {StripHtmpl(d) : d \in {d \in PathPlus(g, HTMPL(uri)) : StartsWithHtmpl(d)}}
        \ {uri}

\* get_deps leaving out the components marked installed
get_deps_not_installed(g, uri) ==
    {StripHtmpl(d) : d \in {d \in PathPlus(g, HTMPL(uri)) : StartsWithHtmpl(d)}}
        \ {StripHtmpl(t[1]) : t \in {t \in g : t[2] = "installed"}}

get_deps(g, uri) ==
    {StripHtmpl(d) : d \in {d \in PathPlus(g, HTMPL(uri)) : StartsWithHtmpl(d)}}

\* get_installed probing the project directory again instead of reading
\* the status:installed statements added at construction
get_installed_rescan(g) == {u \in all_uris(g) : u \in fs}

get_installed(g) ==
    {StripHtmpl(t[1]) :
        t \in {t \in g : t[2] = "installed" /\ t[3] = Literal("true")}}

\* get_python_deps without the transitive query
get_python_deps_direct(g, uri) ==
    {o[2] : o \in Objects(g, HTMPL(uri), "python")}

get_python_deps(g, uri) ==
    LET direct == {o[2] : o \in Objects(g, HTMPL(uri), "python")}
        transitive ==
            {o[2] : o \in UNION {Objects(g, intermediate, "python") :
                                    intermediate \in PathPlus(g, HTMPL(uri))}}
    IN  direct \cup transitive

RECURSIVE ResolveLoop(_, _, _, _)
ResolveLoop(g, selected, i, needed) ==
    IF i > Len(selected) THEN needed
    ELSE ResolveLoop(g, selected, i + 1, needed \cup get_deps(g, selected[i]))

Range(s) == {s[i] : i \in DOMAIN s}

\* resolve starting from an empty needed set instead of set(selected)
resolve_deps_only(g, selected) ==
    ResolveLoop(g, selected, 1, {}) \ get_installed(g)

\* resolve taking the dependencies of the first selected URI only
resolve_first_deps(g, selected) ==
    (Range(selected) \cup
        (IF selected = <<>> THEN {} ELSE get_deps(g, selected[1])))
        \ get_installed(g)

resolve(g, selected) ==
    ResolveLoop(g, selected, 1, Range(selected)) \ get_installed(g)

(***************************************************************************)
(* Specification Spec: one store over a serialized graph and a project     *)
(* directory, answering queries.                                           *)
(***************************************************************************)
Selections == UNION {[1..n -> URIs] : n \in 0..MaxSel}

NoWalk == [stack |-> <<>>, seen |-> {}, out |-> {}]

\* A string of the manager's session is a pair of its text and a serial
\* number.  The serial number tells the values of secrets.token_urlsafe
\* apart: each draw is taken to differ from every earlier draw and from
\* every string a client sends.
NoSecret == <<"None", 0>>
Password(n) == <<"password", n>>
Token(n) == <<"token", n>>

\* no secret generated, no plugin installed, no exception recorded
ManagerIdle ==
    /\ token = NoSecret
    /\ password = NoSecret
    /\ drawn = 0
    /\ cookies = {}
    /\ installed_plugins = <<>>
    /\ saved = <<>>
    /\ heap = <<>>
    /\ exceptions = <<>>
    /\ exc_id_counter = 0

\* the builder is not running and a store over a present components.ttl
\* has been constructed
StoreReady ==
    /\ tree = <<>>
    /\ todo = {}
    /\ lines = <<>>
    /\ bpc = "idle"
    /\ source = "present"
    /\ store = "ready"

Init ==
    /\ \E E \in UpTo(PossibleEdges, MaxEdges) : ttl = NameTriples \cup E
    /\ fs \in SUBSET Components
    /\ fsScanned = fs
    /\ graph = ComponentGraph(ttl, fs)
    /\ op = "idle"
    /\ arg = <<>>
    /\ result = {}
    /\ raised = "none"
    /\ pc = "idle"
    /\ tasks = <<>>
    /\ walk = NoWalk
    /\ ManagerIdle
    /\ StoreReady

GetDeps(u) ==
    /\ op = "idle"
    /\ op' = "get_deps"
    /\ arg' = <<u>>
    /\ result' = get_deps(graph, u)
    /\ raised' = "none"
    /\ UNCHANGED <<mvars, bvars, ttl, fs, fsScanned, graph, pc, tasks, walk>>

GetInstalled ==
    /\ op = "idle"
    /\ op' = "get_installed"
    /\ arg' = <<>>
    /\ result' = get_installed(graph)
    /\ raised' = "none"
    /\ UNCHANGED <<mvars, bvars, ttl, fs, fsScanned, graph, pc, tasks, walk>>

\* resolve recording the components it returns as installed
ResolveMarkingInstalled(selected) ==
    /\ op = "idle"
    /\ op' = "resolve"
    /\ arg' = selected
    /\ result' = resolve(graph, selected)
    /\ raised' = "none"
    /\ graph' = graph \cup {<<HTMPL(u), "installed", Literal("true")>> :
                                u \in resolve(graph, selected)}
    /\ UNCHANGED <<mvars, bvars, ttl, fs, fsScanned, pc, tasks, walk>>

Resolve(selected) ==
    /\ op = "idle"
    /\ op' = "resolve"
    /\ arg' = selected
    /\ result' = resolve(graph, selected)
    /\ raised' = "none"
    /\ UNCHANGED <<mvars, bvars, ttl, fs, fsScanned, graph, pc, tasks, walk>>

\* the caller takes the result; the store is ready for the next query
Return ==
    /\ op # "idle"
    /\ op' = "idle"
    /\ arg' = <<>>
    /\ result' = {}
    /\ raised' = "none"
    /\ UNCHANGED <<mvars, bvars, ttl, fs, fsScanned, graph, pc, tasks, walk>>

Next ==
    \/ \E u \in URIs : GetDeps(u)
    \/ GetInstalled
    \/ \E s \in Selections : Resolve(s)
    \/ Return

Spec == Init /\ [][Next]_vars

(***************************************************************************)
(* Specification SpecPy: the external (python) requirements.  The          *)
(* serialized graph also holds dep:python statements; the project          *)
(* directory is fresh.                                                     *)
(***************************************************************************)
InitPy ==
    /\ \E E \in UpTo(PossibleEdges, MaxEdges), P \in UpTo(PossiblePy, MaxPy) :
          ttl = NameTriples \cup E \cup P
    /\ fs = {}
    /\ fsScanned = fs
    /\ graph = ComponentGraph(ttl, fs)
    /\ op = "idle"
    /\ arg = <<>>
    /\ result = {}
    /\ raised = "none"
    /\ pc = "idle"
    /\ tasks = <<>>
    /\ walk = NoWalk
    /\ ManagerIdle
    /\ StoreReady

GetPythonDeps(u) ==
    /\ op = "idle"
    /\ op' = "get_python_deps"
    /\ arg' = <<u>>
    /\ result' = get_python_deps(graph, u)
    /\ raised' = "none"
    /\ UNCHANGED <<mvars, bvars, ttl, fs, fsScanned, graph, pc, tasks, walk>>

\* graph.get_dependents(uri): ComponentGraph has no such attribute
GetDependents(u) ==
    /\ op = "idle"
    /\ op' = "get_dependents"
    /\ arg' = <<u>>
    /\ result' = {}
    /\ raised' = "AttributeError"
    /\ UNCHANGED <<mvars, bvars, ttl, fs, fsScanned, graph, pc, tasks, walk>>

NextPy ==
    \/ \E u \in URIs : GetPythonDeps(u)
    \/ \E u \in URIs : GetDeps(u)
    \/ \E u \in URIs : GetDependents(u)
    \/ Return

SpecPy == InitPy /\ [][NextPy]_vars

(***************************************************************************)
(* Specification SpecFs: the project directory changes while a store is    *)
(* alive (something materializes or removes a component), and a new store  *)
(* may be constructed over the same components.ttl.                        *)
(***************************************************************************)
Mkdir(u) ==
    /\ op = "idle"
    /\ u \notin fs
    /\ fs' = fs \cup {u}
    /\ UNCHANGED <<mvars, bvars, ttl, fsScanned, graph, op, arg, result, raised, pc, tasks, walk>>

Rmdir(u) ==
    /\ op = "idle"
    /\ u \in fs
    /\ fs' = fs \ {u}
    /\ UNCHANGED <<mvars, bvars, ttl, fsScanned, graph, op, arg, result, raised, pc, tasks, walk>>

\* ComponentGraph(project_dir=...) again, as the service factory does
Construct ==
    /\ op = "idle"
    /\ fsScanned # fs
    /\ graph' = ComponentGraph(ttl, fs)
    /\ fsScanned' = fs
    /\ UNCHANGED <<mvars, bvars, ttl, fs, op, arg, result, raised, pc, tasks, walk>>

NextFs ==
    \/ \E u \in Components : Mkdir(u)
    \/ \E u \in Components : Rmdir(u)
    \/ Construct
    \/ GetInstalled
    \/ \E u \in URIs : Resolve(<<u>>)
    \/ Return

SpecFs == Init /\ [][NextFs]_vars

(***************************************************************************)
(* Specification SpecTrav: one query, evaluated step by step.  get_deps    *)
(* and get_python_deps evaluate dep:requires+ from one URI, resolve from   *)
(* each URI of the selected list in turn.  The evaluation is synchronous:  *)
(* once called it keeps running, which is the fairness of SpecTrav.  A     *)
(* walk that nests deeper than RecursionLimit fails with RecursionError.   *)
(***************************************************************************)
InitTrav ==
    /\ \E E \in UpTo(PossibleEdges, MaxEdges) : ttl = NameTriples \cup E
    /\ fs = Components
    /\ fsScanned = fs
    /\ graph = ComponentGraph(ttl, fs)
    /\ op = "idle"
    /\ arg = <<>>
    /\ result = {}
    /\ raised = "none"
    /\ pc = "idle"
    /\ tasks = <<>>
    /\ walk = NoWalk
    /\ ManagerIdle
    /\ StoreReady

CallGetDeps(u) ==
    /\ pc = "idle"
    /\ op' = "get_deps"
    /\ arg' = <<u>>
    /\ tasks' = <<u>>
    /\ result' = {}
    /\ pc' = "next"
    /\ UNCHANGED <<mvars, bvars, ttl, fs, fsScanned, graph, raised, walk>>

CallGetPythonDeps(u) ==
    /\ pc = "idle"
    /\ op' = "get_python_deps"
    /\ arg' = <<u>>
    /\ tasks' = <<u>>
    /\ result' = {o[2] : o \in Objects(graph, HTMPL(u), "python")}
    /\ pc' = "next"
    /\ UNCHANGED <<mvars, bvars, ttl, fs, fsScanned, graph, raised, walk>>

CallResolve(selected) ==
    /\ pc = "idle"
    /\ op' = "resolve"
    /\ arg' = selected
    /\ tasks' = selected
    /\ result' = Range(selected)
    /\ pc' = "next"
    /\ UNCHANGED <<mvars, bvars, ttl, fs, fsScanned, graph, raised, walk>>

\* the next dep:requires+ query starts
WalkStart ==
    /\ pc = "next"
    /\ tasks # <<>>
    /\ walk' = FwdStart(graph, HTMPL(Head(tasks)))
    /\ pc' = "walk"
    /\ UNCHANGED <<mvars, bvars, ttl, fs, fsScanned, graph, op, arg, result, raised, tasks>>

\* the iteration of the top frame yields its next triple, in any order
WalkVisit ==
    /\ pc = "walk"
    /\ walk.stack # <<>>
    /\ \E o \in Top(walk).todo :
          IF ~Seen(walk, o) /\ Len(walk.stack) >= RecursionLimit
          THEN /\ pc' = "failed"
               /\ raised' = "RecursionError"
               /\ UNCHANGED walk
          ELSE /\ walk' = FwdVisit(graph, walk, o)
               /\ UNCHANGED <<pc, raised>>
    /\ UNCHANGED <<mvars, bvars, ttl, fs, fsScanned, graph, op, arg, result, tasks>>

WalkPop ==
    /\ pc = "walk"
    /\ walk.stack # <<>>
    /\ Top(walk).todo = {}
    /\ walk' = FwdPop(walk)
    /\ UNCHANGED <<mvars, bvars, ttl, fs, fsScanned, graph, op, arg, result, raised, pc, tasks>>

\* the query is evaluated: its rows go into the result
WalkEnd ==
    /\ pc = "walk"
    /\ walk.stack = <<>>
    /\ result' = result \cup
          (IF op = "get_python_deps"
           THEN {o[2] : o \in UNION {Objects(graph, intermediate, "python") :
                                        intermediate \in walk.out}}
           ELSE {StripHtmpl(d) : d \in {d \in walk.out : StartsWithHtmpl(d)}})
    /\ tasks' = Tail(tasks)
    /\ walk' = NoWalk
    /\ pc' = "next"
    /\ UNCHANGED <<mvars, bvars, ttl, fs, fsScanned, graph, op, arg, raised>>

Finish ==
    /\ pc = "next"
    /\ tasks = <<>>
    /\ result' = IF op = "resolve" THEN result \ get_installed(graph) ELSE result
    /\ pc' = "done"
    /\ UNCHANGED <<mvars, bvars, ttl, fs, fsScanned, graph, op, arg, raised, tasks, walk>>

Running == WalkStart \/ WalkVisit \/ WalkPop \/ WalkEnd \/ Finish

NextTrav ==
    \/ \E u \in URIs : CallGetDeps(u)
    \/ \E u \in URIs : CallGetPythonDeps(u)
    \/ \E s \in Selections : CallResolve(s)
    \/ WalkStart
    \/ WalkVisit
    \/ WalkPop
    \/ WalkEnd
    \/ Finish

SpecTrav == InitTrav /\ [][NextTrav]_vars /\ WF_vars(Running)

(***************************************************************************)
(* Reachability over dep:requires, computed independently of the walk:     *)
(* the transitive closure of the edge relation, one pivot node at a time.  *)
(***************************************************************************)
RequiresEdges(g) == {<<t[1], t[3]>> : t \in {t \in g : t[2] = "requires"}}

RECURSIVE Warshall(_, _)
Warshall(R, pivots) ==
    IF pivots = {} THEN R
    ELSE LET k == CHOOSE k \in pivots : TRUE
             via == {<<e1[1], e2[2]>> :
                        e1 \in {e \in R : e[2] = k}, e2 \in {e \in R : e[1] = k}}
         IN  Warshall(R \cup via, pivots \ {k})

Closure(g) ==
    LET R == RequiresEdges(g)
    IN  Warshall(R, {e[1] : e \in R} \cup {e[2] : e \in R})

\* the component URIs reachable from uri by one or more dep:requires edges
Reachable(g, uri) ==
    {e[2][2] : e \in {e \in Closure(g) : e[1] = HTMPL(uri) /\ e[2][1] = "htmpl"}}

\* uri lies on a cycle: some chain of requires edges leads from uri back to it
OnCycle(g, uri) ==
    \E k \in 1..Cardinality(Components) : \E p \in [1..k -> Components] :
        /\ p[1] = uri
        /\ \A i \in 1..k :
              <<HTMPL(p[i]), HTMPL(IF i = k THEN uri ELSE p[i + 1])>>
                  \in RequiresEdges(g)

\* the URIs that occur in some statement of the graph
KnownUris(g) ==
    {n[2] : n \in {n \in {t[1] : t \in g} \cup {t[3] : t \in g} : n[1] = "htmpl"}}

(***************************************************************************)
(* Claims under Spec.                                                      *)
(***************************************************************************)

\* C1: get_deps(u) is exactly the set of component URIs reachable from u by
\* one or more dep:requires edges (so it holds C when u requires B and B
\* requires C, nothing unreachable, and is empty when u has no such edge).
C1_GetDepsIsReachability ==
    op = "get_deps" => result = Reachable(graph, arg[1])

\* get_deps returned a component that is two hops away and not a direct
\* dependency
C1_Witness ==
    /\ op = "get_deps"
    /\ \E c \in result \ {arg[1]} :
          /\ HTMPL(c) \notin Successors(graph, HTMPL(arg[1]))
          /\ \E b \in Components \ {arg[1], c} :
                /\ HTMPL(b) \in Successors(graph, HTMPL(arg[1]))
                /\ HTMPL(c) \in Successors(graph, HTMPL(b))

\* C2: resolve(selected) is (selected united with get_deps(u) for every u in
\* selected) minus the installed set.
C2_ResolveIsNeededMinusInstalled ==
    op = "resolve" =>
        result = (Range(arg) \cup UNION {get_deps(graph, u) : u \in Range(arg)})
                     \ get_installed(graph)

\* resolve of two URIs returned a dependency outside the selection while an
\* installed dependency was left out
C2_Witness ==
    /\ op = "resolve"
    /\ Len(arg) = MaxSel
    /\ result \ Range(arg) # {}
    /\ UNION {get_deps(graph, u) : u \in Range(arg)} \cap get_installed(graph) # {}

\* C3 (as claimed): a component whose path existed when the store was
\* constructed is never in the result of resolve.
C3_InstalledNeverResolved ==
    op = "resolve" => result \cap (Components \cap fsScanned) = {}

\* C4 (as claimed): resolve of a selection holding a URI absent from the
\* graph raises UnknownComponentError and returns no result set.
C4_UnknownUriRejected ==
    (op = "resolve" /\ Range(arg) \ KnownUris(graph) # {})
        => raised = "UnknownComponentError"

\* C5 (as claimed): get_deps(u) never contains u itself, cycles included.
C5_NeverContainsSelf ==
    op = "get_deps" => arg[1] \notin result

\* C5 (amended): get_deps(u) contains u itself exactly when u lies on a
\* cycle of dep:requires edges (a self-loop or a longer cycle).
C5_SelfIffOnCycle ==
    op = "get_deps" => (arg[1] \in result <=> OnCycle(graph, arg[1]))

\* get_deps(u) returned u for a u on a cycle of two or more components
C5_Witness ==
    /\ op = "get_deps"
    /\ arg[1] \in result
    /\ HTMPL(arg[1]) \notin Successors(graph, HTMPL(arg[1]))

\* C7 (as claimed): once the result of resolve(selected) and the selection
\* are materialized on disk, a fresh store over the same serialized graph
\* resolves the same selection of known components to the empty set.
C7_ResolveThenInstallIsEmpty ==
    (op = "resolve" /\ Range(arg) \subseteq Components) =>
        resolve(ComponentGraph(ttl, fs \cup result \cup Range(arg)), arg) = {}

\* C8: get_deps does not depend on the install state: a store loaded from
\* the same serialized graph over any other set of existing paths returns
\* the same closure; and with A requiring only B, B installed and A not,
\* resolve([A]) is {A} while get_deps(A) is {B}.
C8_ClosureIndependentOfInstallState ==
    /\ op = "get_deps" =>
          \A files \in SUBSET Components :
              get_deps(ComponentGraph(ttl, files), arg[1]) = result
    /\ \A A \in Components, B \in Components :
          (/\ op = "resolve"
           /\ arg = <<A>>
           /\ A # B
           /\ Reachable(graph, A) = {B}
           /\ B \in get_installed(graph)
           /\ A \notin get_installed(graph))
              => (result = {A} /\ get_deps(graph, A) = {B})

\* get_deps(A) returned {B} for an A that is not installed and whose single
\* dependency B is installed
C8_Witness ==
    /\ op = "get_deps"
    /\ Cardinality(result) = 1
    /\ result \subseteq get_installed(graph)
    /\ arg[1] \notin result \cup get_installed(graph)

\* the URIs of a set as a list, once each, in one fixed order
RECURSIVE SetToSeq(_)
SetToSeq(S) ==
    IF S = {} THEN <<>>
    ELSE LET x == CHOOSE x \in S : TRUE
         IN  <<x>> \o SetToSeq(S \ {x})

\* C20: resolve is deterministic and depends only on the set of selected
\* URIs: what it returned for a list is what it returns, on the same graph
\* and installed set, for the list holding the same URIs once each in a
\* fixed order; so lists that differ in order or repeats give one result.
C20_ResolveIgnoresOrderAndRepeats ==
    op = "resolve" => result = resolve(graph, SetToSeq(Range(arg)))

\* resolve returned for a list of two different URIs with different
\* dependencies
C20_Witness ==
    /\ op = "resolve"
    /\ Len(arg) = MaxSel
    /\ arg[1] # arg[2]
    /\ get_deps(graph, arg[1]) \ get_deps(graph, arg[2]) # {}
    /\ get_deps(graph, arg[2]) \ get_deps(graph, arg[1]) # {}
    /\ result # {}

(***************************************************************************)
(* Claims under SpecFs and SpecPy.                                         *)
(***************************************************************************)

\* the scanned components whose path existed at construction
ScannedAtConstruction == {u \in all_uris(graph) : u \in fsScanned}

\* the scanned components whose path exists now
ScannedNow == {u \in all_uris(graph) : u \in fs}

Needed(g, selected) ==
    Range(selected) \cup UNION {Reachable(g, u) : u \in Range(selected)}

\* C9 (as claimed): every query reflects the filesystem as it is at the time
\* of the call: get_installed reports the scanned components whose path
\* exists now, and resolve leaves exactly those out.
C9_QueryReflectsCurrentFilesystem ==
    /\ op = "get_installed" => result = ScannedNow
    /\ op = "resolve" => result = Needed(graph, arg) \ ScannedNow

\* C9 (amended): the install state is scanned once, when the store is
\* constructed: get_installed reports the scanned components whose path
\* existed then and resolve leaves exactly those out, whatever was created
\* or removed since; a path created or removed later is reflected only by a
\* store constructed afterwards.
C9_InstallStateFixedAtConstruction ==
    /\ op = "get_installed" => result = ScannedAtConstruction
    /\ op = "resolve" => result = Needed(graph, arg) \ ScannedAtConstruction

\* get_installed answered after the path of a scanned component was created
\* and after the path of another was removed
C9_Witness ==
    /\ op = "get_installed"
    /\ ScannedNow \ ScannedAtConstruction # {}
    /\ ScannedAtConstruction \ ScannedNow # {}

\* the python requirement strings component u declares itself
OwnPython(u) == {t[3][2] : t \in {t \in ttl : t[1] = HTMPL(u) /\ t[2] = "python"}}

\* C10: get_python_deps(u) is the union of u's own python requirements and
\* the own python requirements of every component in get_deps(u).
C10_PythonDepsInherited ==
    op = "get_python_deps" =>
        result = OwnPython(arg[1])
                     \cup UNION {OwnPython(v) : v \in get_deps(graph, arg[1])}

\* get_python_deps(A) returned its own requirement and one it inherits from
\* a component it requires
C10_Witness ==
    /\ op = "get_python_deps"
    /\ OwnPython(arg[1]) # {}
    /\ result \ OwnPython(arg[1]) # {}

(***************************************************************************)
(* Claims under SpecTrav.                                                  *)
(***************************************************************************)

\* the nodes a walk can enter
AllNodes == {HTMPL(u) : u \in URIs} \cup {Foreign}

RECURSIVE TodoCount(_)
TodoCount(stack) ==
    IF stack = <<>> THEN 0
    ELSE Cardinality(Head(stack).todo) + TodoCount(Tail(stack))

\* what a walk still has to do at most: entering a node costs PerNode and
\* buys the iteration of its triples and the return from its frame
PerNode == Cardinality(AllNodes) + 1
WalkLeft(w) ==
    Cardinality(AllNodes \ w.seen) * PerNode + TodoCount(w.stack) + Len(w.stack)
PerWalk == Cardinality(AllNodes) * PerNode + 3

\* the steps a called query still has to take at most
StepsLeft ==
    CASE pc = "next" -> Len(tasks) * PerWalk + 1
      [] pc = "walk" -> (Len(tasks) - 1) * PerWalk + 2 + WalkLeft(walk)
      [] OTHER -> 0

QueriesEventuallyReturn == (pc # "idle") ~> (pc = "done")

TravAgreesWithQueries ==
    pc = "done" =>
        result = CASE op = "get_deps" -> get_deps(graph, arg[1])
                   [] op = "get_python_deps" -> get_python_deps(graph, arg[1])
                   [] op = "resolve" -> resolve(graph, arg)

(***************************************************************************)
(* The builder (build_component_ttl).  Strings the code takes apart are    *)
(* sequences of tokens: a dependency string is split at ":" and tested for *)
(* a leading "/", a directory name is searched for a jinja conditional;    *)
(* a whitespace character is a token of its own.                           *)
(* The manifests of the model carry no help key.                           *)
(***************************************************************************)
None == "None"

RECURSIVE Join(_)
Join(toks) == IF toks = <<>> THEN "" ELSE Head(toks) \o Join(Tail(toks))

\* dep.split(":", 1): the index of the first ":"
FirstColon(dep) == CHOOSE i \in 1..Len(dep) :
                        dep[i] = ":" /\ \A j \in 1..(i - 1) : dep[j] # ":"

\* parse_dependency splitting at ":" whatever the string starts with
parse_dependency_any_colon(dep) ==
    IF \E i \in 1..Len(dep) : dep[i] = ":"
    THEN <<Join(SubSeq(dep, 1, FirstColon(dep) - 1)),
           Join(SubSeq(dep, FirstColon(dep) + 1, Len(dep)))>>
    ELSE <<"htmpl", Join(dep)>>

parse_dependency(dep) ==
    IF (\E i \in 1..Len(dep) : dep[i] = ":") /\ ~(dep # <<>> /\ dep[1] = "/")
    THEN <<Join(SubSeq(dep, 1, FirstColon(dep) - 1)),
           Join(SubSeq(dep, FirstColon(dep) + 1, Len(dep)))>>
    ELSE <<"htmpl", Join(dep)>>

\* \s : a blank or a tab (a directory name of the model holds no newline)
IsSpace(tok) == tok \in {" ", "\t"}

\* \w+ : a token that is neither punctuation nor whitespace
IsWord(tok) == tok \notin {"{%", "%}", ":", "/", "-", " ", "\t"}

At(s, i, tok) == i <= Len(s) /\ s[i] = tok

\* \s* taken as at most one whitespace character
SkipOneSpace(s, i) == IF i <= Len(s) /\ IsSpace(s[i]) THEN i + 1 ELSE i

\* \s* from position i: the first position that holds no whitespace
RECURSIVE SkipSpaces(_, _)
SkipSpaces(s, i) ==
    IF i <= Len(s) /\ IsSpace(s[i]) THEN SkipSpaces(s, i + 1) ELSE i

\* \{%\s*if\s+(\w+)\s*%\} from position i: where its "%}" is, 0 if no match
OpenEnd(s, i) ==
    LET a == SkipSpaces(s, i + 1)
        b == SkipSpaces(s, a + 1)
        c == SkipSpaces(s, b + 1)
    IN  IF /\ At(s, i, "{%")
           /\ At(s, a, "if")
           /\ b > a + 1
           /\ b <= Len(s)
           /\ IsWord(s[b])
           /\ At(s, c, "%}")
        THEN c ELSE 0

\* group(1) of a match from position i
FlagAt(s, i) == s[SkipSpaces(s, SkipSpaces(s, i + 1) + 1)]

\* \{%\s*endif\s*%\} from position j
EndifAt(s, j) ==
    /\ At(s, j, "{%")
    /\ At(s, SkipSpaces(s, j + 1), "endif")
    /\ At(s, SkipSpaces(s, SkipSpaces(s, j + 1) + 1), "%}")

\* the positions where JINJA_CONDITIONAL_RE matches
ConditionalAt(dirname) ==
    {i \in 1..Len(dirname) :
        /\ OpenEnd(dirname, i) > 0
        /\ \E j \in (OpenEnd(dirname, i) + 1)..Len(dirname) :
                EndifAt(dirname, j)}

extract_config_key(dirname) ==
    IF ConditionalAt(dirname) = {} THEN None
    ELSE LET i == CHOOSE i \in ConditionalAt(dirname) :
                        \A k \in ConditionalAt(dirname) : i <= k
         IN  FlagAt(dirname, i)

(***************************************************************************)
(* base64 over bytes 0..255; the text is a sequence of sextets 0..63 and   *)
(* B64Pad for "=".                                                         *)
(***************************************************************************)
B64Pad == 64

Enc3(b) ==
    LET n == b[1] * 65536
             + (IF Len(b) >= 2 THEN b[2] ELSE 0) * 256
             + (IF Len(b) >= 3 THEN b[3] ELSE 0)
    IN  <<n \div 262144,
          (n \div 4096) % 64,
          IF Len(b) >= 2 THEN (n \div 64) % 64 ELSE B64Pad,
          IF Len(b) >= 3 THEN n % 64 ELSE B64Pad>>

RECURSIVE b64encode(_)
b64encode(bytes) ==
    IF bytes = <<>> THEN <<>>
    ELSE IF Len(bytes) <= 3 THEN Enc3(bytes)
    ELSE Enc3(SubSeq(bytes, 1, 3)) \o b64encode(SubSeq(bytes, 4, Len(bytes)))

Dec4(c) ==
    LET v(i) == IF c[i] = B64Pad THEN 0 ELSE c[i]
        n == v(1) * 262144 + v(2) * 4096 + v(3) * 64 + v(4)
        full == <<n \div 65536, (n \div 256) % 256, n % 256>>
    IN  IF c[3] = B64Pad THEN SubSeq(full, 1, 1)
        ELSE IF c[4] = B64Pad THEN SubSeq(full, 1, 2)
        ELSE full

RECURSIVE b64decode(_)
b64decode(text) ==
    IF Len(text) < 4 THEN <<>>
    ELSE Dec4(SubSeq(text, 1, 4)) \o b64decode(SubSeq(text, 5, Len(text)))

\* bytes.decode("utf-8") for bytes that encode code points below U+0800: a
\* byte below 0x80 stands alone, a lead byte 0xC2..0xDF takes one
\* continuation byte 0x80..0xBF; any other byte below 0xE0 and 0xFF are
\* invalid wherever they stand.  The bytes of the model avoid 0xE0..0xFE.
RECURSIVE Utf8Valid(_)
Utf8Valid(bytes) ==
    IF bytes = <<>> THEN TRUE
    ELSE IF bytes[1] < 128 THEN Utf8Valid(Tail(bytes))
    ELSE IF bytes[1] \in 194..223 /\ Len(bytes) >= 2 /\ bytes[2] \in 128..191
    THEN Utf8Valid(SubSeq(bytes, 3, Len(bytes)))
    ELSE FALSE

RECURSIVE utf8_decode(_)
utf8_decode(bytes) ==
    IF bytes = <<>> THEN <<>>
    ELSE IF bytes[1] < 128 THEN <<bytes[1]>> \o utf8_decode(Tail(bytes))
    ELSE <<(bytes[1] - 192) * 64 + (bytes[2] - 128)>>
            \o utf8_decode(SubSeq(bytes, 3, Len(bytes)))

\* what a call did: the exception it raised ("none") and what it returned
Returned(value) == [raised |-> "none", value |-> value]
Raised(exception) == [raised |-> exception, value |-> <<>>]

\* base64.b64decode(encoded).decode("utf-8")
decode_readme(encoded) ==
    IF Utf8Valid(b64decode(encoded))
    THEN Returned(utf8_decode(b64decode(encoded)))
    ELSE Raised("UnicodeDecodeError")

(***************************************************************************)
(* The template directory: module_dir/components and module_dir/services   *)
(* hold component directories; a directory holds a component.toml (its     *)
(* [project] table: uri, name, dependencies, and the bytes of the file its *)
(* readme key names) or none.                                              *)
(***************************************************************************)
CondDir(key, dir) ==
    <<"{%", " ", "if", " ", key, " ", "%}", dir, "{%", " ", "endif", " ", "%}">>

Dirs == {<<"components", <<"x">>>>,
         <<"components", CondDir("k", "y")>>,
         <<"services", CondDir("k", "z")>>}

BuildURIs == {"a", "b"}
NoReadme == <<-1>>
ReadmeBytes == <<77, 97>>

Declared ==
    [toml : {TRUE}, uri : BuildURIs, name : {"n", "m"},
     dependencies : {<<>>, << <<"b">> >>}, readme : {NoReadme}]
WithReadme ==
    {[toml |-> TRUE, uri |-> "a", name |-> "n", dependencies |-> <<>>,
      readme |-> ReadmeBytes]}
Lacking ==
    {[toml |-> TRUE, uri |-> None, name |-> "n", dependencies |-> <<>>,
      readme |-> NoReadme],
     [toml |-> TRUE, uri |-> "a", name |-> None, dependencies |-> <<>>,
      readme |-> NoReadme]}
NoManifest ==
    [toml |-> FALSE, uri |-> None, name |-> None, dependencies |-> <<>>,
     readme |-> NoReadme]
Manifests == Declared \cup WithReadme \cup Lacking \cup {NoManifest}

\* template_dir.glob("*/*/") finds nothing
NoModuleDir == <<>>

(***************************************************************************)
(* The output: a sequence of lines, each a prefix declaration, a statement *)
(* (a triple) or a blank line.                                             *)
(***************************************************************************)
PrefixLine(name, iri) == [kind |-> "prefix", text |-> <<name, iri>>]
Stmt(s, p, o) == [kind |-> "stmt", text |-> <<s, p, o>>]
Blank == [kind |-> "blank", text |-> <<>>]

\* the header without the dep: prefix
HeaderOnePrefix == <<PrefixLine("htmpl", "htmpl://"), Blank>>

Header == <<PrefixLine("htmpl", "htmpl://"),
            PrefixLine("dep", "htmpl://depends/"),
            Blank>>

\* one line per entry of config.get("dependencies", [])
dependency_line(subject, d) ==
    LET nv == parse_dependency(d)
    IN  IF nv[1] = "python"
        THEN Stmt(subject, "python", Literal(nv[2]))
        ELSE Stmt(subject, "requires", <<nv[1], nv[2]>>)

\* the block with a status:installed statement after the name
component_block_installed(dirname, config) ==
    LET subject == HTMPL(config.uri)
    IN  <<Stmt(subject, "name", Literal(config.name)),
          Stmt(subject, "installed", Literal("true")),
          Blank>>

\* the lines process_component_dir appends for one component.toml
component_block(dirname, config) ==
    LET subject == HTMPL(config.uri)
        config_key == extract_config_key(dirname)
    IN  <<Stmt(subject, "name", Literal(config.name))>>
        \o (IF config_key # None
            THEN <<Stmt(subject, "configKey", Literal(config_key))>>
            ELSE <<>>)
        \o [i \in 1..Len(config.dependencies) |->
                dependency_line(subject, config.dependencies[i])]
        \o (IF config.readme # NoReadme
            THEN <<Stmt(subject, "readme", Literal(b64encode(config.readme)))>>
            ELSE <<>>)
        \o <<Blank>>

\* graph.parse(..., format="turtle") of the text the builder wrote
Parse(text) ==
    {text[i].text : i \in {i \in 1..Len(text) : text[i].kind = "stmt"}}

(***************************************************************************)
(* ComponentGraph: the metadata queries.  A SELECT yields a set of rows in *)
(* no fixed order; an OPTIONAL pattern that matches nothing leaves its     *)
(* variable unbound.                                                       *)
(***************************************************************************)
Unbound == <<"unbound", "">>

Optional(g, s, p) ==
    IF Objects(g, s, p) = {} THEN {Unbound} ELSE Objects(g, s, p)

\* uri.split("/")[-1] of a URI without "/"
LastSegment(uri) == uri

RowsOf(g, n) ==
    {<<n, nm, k>> : nm \in Optional(g, n, "name"),
                    k \in Optional(g, n, "configKey")}

all_components(g) ==
    LET req == {t \in g : t[2] = "requires"}
        ends == {n \in {t[1] : t \in req} \cup {t[3] : t \in req} :
                    StartsWithHtmpl(n)}
    IN  {[uri |-> StripHtmpl(r[1]),
          name |-> IF r[2] # Unbound THEN r[2][2]
                   ELSE LastSegment(StripHtmpl(r[1])),
          help |-> "",
          config_key |-> IF r[3] # Unbound THEN r[3][2] ELSE None,
          installed |-> StripHtmpl(r[1]) \in get_installed(g)] :
            r \in UNION {RowsOf(g, n) : n \in ends}}

\* the rows of get_component's SELECT
component_rows(g, uri) ==
    {<<nm, k, rd>> : nm \in Objects(g, HTMPL(uri), "name"),
                     k \in Optional(g, HTMPL(uri), "configKey"),
                     rd \in Optional(g, HTMPL(uri), "readme")}

\* the record get_component builds from rows[0]
component_record(g, uri, row) ==
    [uri |-> uri,
     name |-> row[1][2],
     help |-> "",
     config_key |-> IF row[2] # Unbound THEN row[2][2] ELSE None,
     installed |-> uri \in get_installed(g),
     readme |-> IF row[3] # Unbound /\ row[3][2] # <<>>
                THEN decode_readme(row[3][2]).value ELSE <<>>]

\* what get_component may do: return None, or return the record of any row
\* or raise while decoding that row's readme
get_component(g, uri) ==
    IF component_rows(g, uri) = {} THEN {Returned(None)}
    ELSE {IF row[3] # Unbound /\ row[3][2] # <<>>
             /\ decode_readme(row[3][2]).raised # "none"
          THEN Raised(decode_readme(row[3][2]).raised)
          ELSE Returned(component_record(g, uri, row)) :
            row \in component_rows(g, uri)}

\* what get_readme may do: return None, or decode the readme of any row
get_readme(g, uri) ==
    IF Objects(g, HTMPL(uri), "readme") = {} THEN {Returned(None)}
    ELSE {decode_readme(rd[2]) : rd \in Objects(g, HTMPL(uri), "readme")}

\* the dicts uri_to_key may be: a later row of a URI replaces an earlier one
uri_to_key(g) ==
    LET flagged == {t[1] : t \in {t \in g : t[2] = "configKey"}}
    IN  {[u \in {StripHtmpl(n) : n \in flagged} |-> f[HTMPL(u)][2]] :
            f \in {f \in [flagged -> {t[3] : t \in {t \in g : t[2] = "configKey"}}] :
                        \A n \in flagged : f[n] \in Objects(g, n, "configKey")}}

\* {uri_to_key[uri]: uri for uri in uris if uri in uri_to_key}
RECURSIVE ConfigKeysLoop(_, _, _, _)
ConfigKeysLoop(utk, uris, i, dict) ==
    IF i > Len(uris) THEN dict
    ELSE IF uris[i] \in DOMAIN utk
    THEN ConfigKeysLoop(utk, uris, i + 1,
            [k \in DOMAIN dict \cup {utk[uris[i]]} |->
                IF k = utk[uris[i]] THEN uris[i] ELSE dict[k]])
    ELSE ConfigKeysLoop(utk, uris, i + 1, dict)

\* what get_config_keys may return
get_config_keys(g, uris) ==
    {ConfigKeysLoop(utk, uris, 1, <<>>) : utk \in uri_to_key(g)}

(***************************************************************************)
(* Specification SpecBuild: the release build writes components.ttl from   *)
(* a template directory, a store is constructed over whatever is there,    *)
(* and the store answers queries.                                          *)
(***************************************************************************)
InitBuild ==
    /\ tree \in [Dirs -> Manifests] \cup {NoModuleDir}
    /\ todo = {}
    /\ lines = <<>>
    /\ bpc = "idle"
    /\ source = "missing"
    /\ store = "none"
    /\ ttl = {}
    /\ fs \in SUBSET BuildURIs
    /\ fsScanned = {}
    /\ graph = {}
    /\ op = "idle"
    /\ arg = <<>>
    /\ result = {}
    /\ raised = "none"
    /\ pc = "idle"
    /\ tasks = <<>>
    /\ walk = NoWalk
    /\ ManagerIdle

\* build_component_ttl up to the first process_component_dir
BuildStart ==
    /\ bpc = "idle"
    /\ store = "none"
    /\ lines' = Header
    /\ todo' = DOMAIN tree
    /\ bpc' = "running"
    /\ UNCHANGED <<mvars, tree, source, store, ttl, fs, fsScanned, graph, op, arg,
                   result, raised, pc, tasks, walk>>

\* one iteration of base_dir.iterdir(): components before services
ProcessDir(d) ==
    /\ bpc = "running"
    /\ d \in todo
    /\ d[1] = "services" => \A e \in todo : e[1] = "services"
    /\ IF ~tree[d].toml
       THEN /\ todo' = todo \ {d}
            /\ UNCHANGED <<lines, bpc, raised>>
       ELSE IF tree[d].uri = None \/ tree[d].name = None
       THEN /\ bpc' = "failed"
            /\ raised' = "KeyError"
            /\ todo' = {}
            /\ lines' = <<>>
       ELSE /\ lines' = lines \o component_block(d[2], tree[d])
            /\ todo' = todo \ {d}
            /\ UNCHANGED <<bpc, raised>>
    /\ UNCHANGED <<mvars, tree, source, store, ttl, fs, fsScanned, graph, op, arg,
                   result, pc, tasks, walk>>

\* build_component_ttl returns and build_ttl writes the text
BuildEnd ==
    /\ bpc = "running"
    /\ todo = {}
    /\ bpc' = "done"
    /\ ttl' = Parse(lines)
    /\ source' = "present"
    /\ UNCHANGED <<mvars, tree, todo, lines, store, fs, fsScanned, graph, op, arg,
                   result, raised, pc, tasks, walk>>

\* ComponentGraph(project_dir=...)
Load ==
    /\ bpc # "running"
    /\ store = "none"
    /\ op = "idle"
    /\ CASE source = "present" ->
                /\ graph' = ComponentGraph(ttl, fs)
                /\ store' = "ready"
                /\ UNCHANGED raised
         [] source = "missing" ->
                /\ graph' = {}
                /\ store' = "ready"
                /\ UNCHANGED raised
         [] OTHER ->
                /\ raised' = "BadSyntax"
                /\ UNCHANGED <<graph, store>>
    /\ fsScanned' = fs
    /\ UNCHANGED <<mvars, tree, todo, lines, bpc, source, ttl, fs, op, arg, result,
                   pc, tasks, walk>>

\* components.ttl is cut short or edited into text that is not turtle
Damage ==
    /\ source = "present"
    /\ store = "none"
    /\ source' = "malformed"
    /\ UNCHANGED <<mvars, tree, todo, lines, bpc, store, ttl, fs, fsScanned, graph,
                   op, arg, result, raised, pc, tasks, walk>>

BuildSelections == UNION {[1..n -> BuildURIs] : n \in 0..MaxSel}

AllComponents ==
    /\ store = "ready"
    /\ op = "idle"
    /\ op' = "all_components"
    /\ arg' = <<>>
    /\ result' = all_components(graph)
    /\ raised' = "none"
    /\ UNCHANGED <<mvars, bvars, ttl, fs, fsScanned, graph, pc, tasks, walk>>

GetComponent(u) ==
    /\ store = "ready"
    /\ op = "idle"
    /\ op' = "get_component"
    /\ arg' = <<u>>
    /\ \E did \in get_component(graph, u) :
            result' = did.value /\ raised' = did.raised
    /\ UNCHANGED <<mvars, bvars, ttl, fs, fsScanned, graph, pc, tasks, walk>>

GetReadme(u) ==
    /\ store = "ready"
    /\ op = "idle"
    /\ op' = "get_readme"
    /\ arg' = <<u>>
    /\ \E did \in get_readme(graph, u) :
            result' = did.value /\ raised' = did.raised
    /\ UNCHANGED <<mvars, bvars, ttl, fs, fsScanned, graph, pc, tasks, walk>>

GetConfigKeys(uris) ==
    /\ store = "ready"
    /\ op = "idle"
    /\ op' = "get_config_keys"
    /\ arg' = uris
    /\ result' \in get_config_keys(graph, uris)
    /\ raised' = "none"
    /\ UNCHANGED <<mvars, bvars, ttl, fs, fsScanned, graph, pc, tasks, walk>>

NextBuild ==
    \/ BuildStart
    \/ \E d \in Dirs : ProcessDir(d)
    \/ BuildEnd
    \/ Damage
    \/ Load
    \/ AllComponents
    \/ \E u \in BuildURIs : GetComponent(u)
    \/ \E u \in BuildURIs : GetReadme(u)
    \/ \E uris \in BuildSelections : GetConfigKeys(uris)
    \/ store = "ready" /\ \E u \in BuildURIs : GetDeps(u)
    \/ store = "ready" /\ \E u \in BuildURIs : GetPythonDeps(u)
    \/ store = "ready" /\ GetInstalled
    \/ store = "ready" /\ \E chosen \in SUBSET BuildURIs :
                            Resolve(SetToSeq(chosen))
    \/ Return

SpecBuild == InitBuild /\ [][NextBuild]_vars

(***************************************************************************)
(* Claims under SpecBuild.                                                 *)
(***************************************************************************)
\* a component.toml with both required fields
Valid(config) == config.toml /\ config.uri # None /\ config.name # None

\* the config keys a URI carries in the store
KeysOf(g, uri) == {k[2] : k \in Objects(g, HTMPL(uri), "configKey")}

\* the graph a store constructed now over the source would hold
Constructed ==
    IF source = "present" THEN ComponentGraph(ttl, fsScanned) ELSE {}

\* C11: all_components() lists every component a manifest declares, also
\* one with no internal dependency that no component requires, with its
\* name, its config key and its installed flag.
C11_AllDeclaredComponentsListed ==
    (op = "all_components" /\ bpc = "done") =>
        \A d \in DOMAIN tree :
            tree[d].toml =>
                \E r \in result :
                    /\ r.uri = tree[d].uri
                    /\ r.name = tree[d].name
                    /\ r.config_key \in KeysOf(graph, r.uri) \cup {None}
                    /\ r.installed = (r.uri \in fsScanned)

\* C12: get_config_keys over a list in which two different URIs carry the
\* same config key raises AmbiguousFlagError.
C12_SharedFlagRaises ==
    op = "get_config_keys" =>
        ((\E i, j \in DOMAIN arg :
            /\ arg[i] # arg[j]
            /\ KeysOf(graph, arg[i]) \cap KeysOf(graph, arg[j]) # {})
         => raised = "AmbiguousFlagError")

\* C13: the map get_config_keys returns takes its values from the given
\* URIs, maps a flag to a URI carrying it, and has an entry for each given
\* URI that carries a config key.
C13_ConfigKeysCoverGivenUris ==
    op = "get_config_keys" =>
        /\ \A k \in DOMAIN result :
                result[k] \in Range(arg) /\ k \in KeysOf(graph, result[k])
        /\ \A u \in Range(arg) :
                KeysOf(graph, u) # {} => \E k \in DOMAIN result : result[k] = u

\* the entries of C13 when no two given URIs share a flag
ConfigKeysCoverWithoutSharedFlag ==
    (op = "get_config_keys" /\
     \A i, j \in DOMAIN arg :
        arg[i] # arg[j] =>
            KeysOf(graph, arg[i]) \cap KeysOf(graph, arg[j]) = {})
    => C13_ConfigKeysCoverGivenUris

\* C14: a store is only ever constructed from a present, well-formed
\* components.ttl; a missing or malformed one makes the constructor raise
\* GraphLoadError.
C14_BadSourceRaisesGraphLoadError ==
    /\ store = "ready" => source = "present"
    /\ (source = "malformed" /\ raised # "none") => raised = "GraphLoadError"

\* C15: a manifest lacking uri or name never aborts the build, and the
\* finished build holds the block of every valid manifest.
C15_BadManifestSkipped ==
    /\ bpc # "failed"
    /\ bpc = "done" =>
        \A d \in DOMAIN tree :
            Valid(tree[d]) =>
                <<HTMPL(tree[d].uri), "name", Literal(tree[d].name)>> \in ttl

\* C16: all_components() holds at most one record per URI.
C16_OneRecordPerUri ==
    op = "all_components" =>
        \A r1, r2 \in result : r1.uri = r2.uri => r1 = r2

\* no line of the builder's output and no statement of components.ttl is a
\* status:installed statement
NoInstalledStatement ==
    /\ \A i \in DOMAIN lines :
            lines[i].kind = "stmt" => lines[i].text[2] # "installed"
    /\ \A t \in ttl : t[2] # "installed"

\* C18: the builder's output holds no installed statement, and no step of
\* a store (its construction, a query, a return) changes components.ttl.
C18_InstallOverlayNotPersisted ==
    /\ []NoInstalledStatement
    /\ [][store' = "ready" => (ttl' = ttl /\ source' = source)]_vars

\* a store over a built components.ttl reports an installed component
C18_Witness ==
    /\ bpc = "done"
    /\ store = "ready"
    /\ op = "get_installed"
    /\ result # {}
    /\ \E t \in graph : t[2] = "installed"

\* the returned value is one the query gives on the graph as constructed
AloneResult ==
    CASE op = "get_deps" -> result = get_deps(Constructed, arg[1])
      [] op = "get_python_deps" -> result = get_python_deps(Constructed, arg[1])
      [] op = "get_installed" -> result = get_installed(Constructed)
      [] op = "resolve" -> result = resolve(Constructed, arg)
      [] op = "get_config_keys" -> result \in get_config_keys(Constructed, arg)
      [] op = "all_components" -> result = all_components(Constructed)
      [] op = "get_component" ->
            \E did \in get_component(Constructed, arg[1]) :
                raised = did.raised /\ result = did.value
      [] op = "get_readme" ->
            \E did \in get_readme(Constructed, arg[1]) :
                raised = did.raised /\ result = did.value
      [] OTHER -> TRUE

MaxDeps == 2        \* dependency strings in the manifest

DepStrings == {<<"b">>,
               <<"htmpl", ":", "b">>,
               <<"python", ":", "p">>,
               <<"python", ":", "p", ":", "q">>,
               <<"ext", ":", "x">>,
               <<"/", "b", ":", "c">>}

DepLists == UNION {[1..n -> DepStrings] : n \in 0..MaxDeps}

TheDir == <<"components", <<"x">>>>

InitDeps ==
    /\ \E u \in BuildURIs, deps \in DepLists :
            tree = [d \in Dirs |->
                        IF d = TheDir
                        THEN [toml |-> TRUE, uri |-> u, name |-> "n",
                              dependencies |-> deps, readme |-> NoReadme]
                        ELSE NoManifest]
    /\ todo = {}
    /\ lines = <<>>
    /\ bpc = "idle"
    /\ source = "missing"
    /\ store = "none"
    /\ ttl = {}
    /\ fs = {}
    /\ fsScanned = {}
    /\ graph = {}
    /\ op = "idle"
    /\ arg = <<>>
    /\ result = {}
    /\ raised = "none"
    /\ pc = "idle"
    /\ tasks = <<>>
    /\ walk = NoWalk
    /\ ManagerIdle

NextDeps ==
    \/ BuildStart
    \/ \E d \in Dirs : ProcessDir(d)
    \/ BuildEnd
    \/ bpc = "done" /\ Load
    \/ store = "ready" /\ GetDeps(tree[TheDir].uri)
    \/ store = "ready" /\ GetPythonDeps(tree[TheDir].uri)
    \/ Return

SpecDeps == InitDeps /\ [][NextDeps]_vars

(***************************************************************************)
(* Claims under SpecDeps.  The classes of a dependency string are read off *)
(* its tokens.                                                             *)
(***************************************************************************)
HasPrefix(dep, ns) == Len(dep) >= 2 /\ dep[1] = ns /\ dep[2] = ":"
HasColon(dep) == \E i \in 1..Len(dep) : dep[i] = ":"
LeadingSlash(dep) == dep # <<>> /\ dep[1] = "/"

External(dep) == HasPrefix(dep, "python")
Unprefixed(dep) == ~HasColon(dep) \/ LeadingSlash(dep)
OtherPrefix(dep) ==
    HasColon(dep) /\ ~LeadingSlash(dep)
        /\ ~HasPrefix(dep, "python") /\ ~HasPrefix(dep, "htmpl")

\* the text after the one-token prefix and its ":"
AfterPrefix(dep) == Join(SubSeq(dep, 3, Len(dep)))

\* the manifest's dependency strings
DepsOfManifest == Range(tree[TheDir].dependencies)

\* C17 as stated: an external string is returned by get_python_deps and is
\* no node; every other string, also one with an unrecognized prefix, gives
\* a target that get_deps of its source returns.
C17_EveryNonExternalIsInternal ==
    /\ op = "get_python_deps" =>
            \A dep \in DepsOfManifest :
                External(dep) => AfterPrefix(dep) \in result
    /\ \A t \in graph : t[3][1] # "python"
    /\ op = "get_deps" =>
            \A dep \in DepsOfManifest :
                ~External(dep) =>
                    \E target \in result :
                        target \in {Join(dep), AfterPrefix(dep)}

\* C17 amended: an external string is returned by get_python_deps and is no
\* node; a string with the internal prefix, or with no prefix, gives a
\* target get_deps returns; a string with another prefix ns gives an edge to
\* the node <ns://value>, which neither query returns.
C17_PrefixDecidesClass ==
    /\ op = "get_python_deps" =>
            result = {AfterPrefix(dep) : dep \in {dep \in DepsOfManifest : External(dep)}}
    /\ \A t \in graph : t[3][1] # "python"
    /\ op = "get_deps" =>
            result = {AfterPrefix(dep) : dep \in {dep \in DepsOfManifest : HasPrefix(dep, "htmpl")}}
                     \cup {Join(dep) : dep \in {dep \in DepsOfManifest : Unprefixed(dep)}}
    /\ store = "ready" =>
            \A dep \in DepsOfManifest :
                OtherPrefix(dep) =>
                    <<HTMPL(tree[TheDir].uri), "requires",
                      <<dep[1], AfterPrefix(dep)>>>> \in graph

\* get_deps returned for a manifest with an internal string and a string
\* with another prefix
C17_Witness ==
    /\ op = "get_deps"
    /\ result # {}
    /\ \E dep \in DepsOfManifest : OtherPrefix(dep)
    /\ \E dep \in DepsOfManifest : Unprefixed(dep) /\ LeadingSlash(dep)

(***************************************************************************)
(* Specification SpecKey: extract_config_key applied to a directory name.  *)
(* The names are put together from a prefix, an opening tag, a literal and *)
(* a closing tag, with runs of whitespace inside the tags.                 *)
(***************************************************************************)
MaxWs == 2          \* whitespace characters in one run

Blanks(n) == [i \in 1..n |-> " "]

\* a run of n whitespace characters, the first one a tab if asked for
Run(n, tab) == [i \in 1..n |-> IF tab /\ i = 1 THEN "\t" ELSE " "]

DirNames ==
    {pre \o <<"{%">> \o Blanks(a) \o <<kw>> \o Run(b, tab) \o <<flag>>
         \o Blanks(c) \o <<"%}">> \o lit
         \o <<"{%">> \o Blanks(d) \o <<end>> \o Blanks(e) \o <<"%}">> :
        pre \in {<<>>, <<"p">>}, a \in 0..MaxWs, kw \in {"if", "iff"},
        b \in 0..MaxWs, tab \in BOOLEAN, flag \in {"k", "-"},
        c \in 0..MaxWs, lit \in {<<>>, <<"x">>},
        d \in 0..MaxWs, end \in {"endif", "end"}, e \in 0..MaxWs}
    \cup {<<"x">>, <<"htmpl_admin">>}

InitKey ==
    /\ arg \in DirNames
    /\ op = "idle"
    /\ result = {}
    /\ raised = "none"
    /\ ttl = {}
    /\ fs = {}
    /\ fsScanned = {}
    /\ graph = {}
    /\ pc = "idle"
    /\ tasks = <<>>
    /\ walk = NoWalk
    /\ ManagerIdle
    /\ tree = <<>>
    /\ todo = {}
    /\ lines = <<>>
    /\ bpc = "idle"
    /\ source = "missing"
    /\ store = "none"

ExtractConfigKey ==
    /\ op = "idle"
    /\ op' = "extract_config_key"
    /\ result' = extract_config_key(arg)
    /\ UNCHANGED <<mvars, bvars, ttl, fs, fsScanned, graph, arg, raised, pc, tasks,
                   walk>>

NextKey == ExtractConfigKey

SpecKey == InitKey /\ [][NextKey]_vars

\* the tokens of s from position i to position j are whitespace
AllSpace(s, i, j) == \A n \in i..j : IsSpace(s[n])

\* s holds, from position i, a marker {% if <flag> %}<literal>{% endif %}
MarkerAt(s, i, flag) ==
    /\ s[i] = "{%"
    /\ IsWord(flag)
    /\ \E pif \in (i + 1)..Len(s) :
        /\ AllSpace(s, i + 1, pif - 1)
        /\ s[pif] = "if"
        /\ \E pf \in (pif + 2)..Len(s) :
            /\ AllSpace(s, pif + 1, pf - 1)
            /\ s[pf] = flag
            /\ \E pc1 \in (pf + 1)..Len(s) :
                /\ AllSpace(s, pf + 1, pc1 - 1)
                /\ s[pc1] = "%}"
                /\ \E q \in (pc1 + 1)..Len(s) :
                    /\ s[q] = "{%"
                    /\ \E qe \in (q + 1)..Len(s) :
                        /\ AllSpace(s, q + 1, qe - 1)
                        /\ s[qe] = "endif"
                        /\ \E qc \in (qe + 1)..Len(s) :
                            /\ AllSpace(s, qe + 1, qc - 1)
                            /\ s[qc] = "%}"

\* C21: extract_config_key returns the flag of the marker a directory name
\* holds, whatever whitespace stands inside the marker's delimiters, and
\* None for a name that holds no marker.
C21_FlagOfMarkerOrNone ==
    op = "extract_config_key" =>
        IF \E i \in DOMAIN arg, flag \in Range(arg) : MarkerAt(arg, i, flag)
        THEN \E i \in DOMAIN arg, flag \in Range(arg) :
                MarkerAt(arg, i, flag) /\ result = flag
        ELSE result = None

\* the flag was extracted from a marker with a tab and repeated blanks
C21_Witness ==
    /\ op = "extract_config_key"
    /\ result = "k"
    /\ \E i \in DOMAIN arg : arg[i] = "\t"
    /\ \E i \in DOMAIN arg : i < Len(arg) /\ arg[i] = " " /\ arg[i + 1] = " "

(***************************************************************************)
(* Further claims under SpecBuild.                                         *)
(***************************************************************************)
\* the directory name holds a conditional-inclusion marker
Conditional(dirname) ==
    \E i \in DOMAIN dirname, flag \in Range(dirname) : MarkerAt(dirname, i, flag)

\* no two manifests of the tree declare the same URI
UrisDeclaredOnce ==
    \A d1, d2 \in DOMAIN tree :
        (tree[d1].toml /\ tree[d2].toml /\ tree[d1].uri = tree[d2].uri)
            => d1 = d2

\* C22: in a store loaded from the built graph, the component of a
\* conditional directory carries exactly the flag of the directory's marker
\* as its config key, and the component of an unconditional directory
\* carries none: get_component and all_components report config_key None.
C22_ConfigKeyIffConditionalDir ==
    (bpc = "done" /\ store = "ready") =>
        \A d \in DOMAIN tree :
            tree[d].toml =>
                IF Conditional(d[2])
                THEN \E i \in DOMAIN d[2] :
                        /\ MarkerAt(d[2], i, FlagAt(d[2], i))
                        /\ KeysOf(graph, tree[d].uri) = {FlagAt(d[2], i)}
                ELSE /\ KeysOf(graph, tree[d].uri) = {}
                     /\ \A row \in component_rows(graph, tree[d].uri) :
                            row[2] = Unbound
                     /\ \A r \in all_components(graph) :
                            r.uri = tree[d].uri => r.config_key = None

\* the same when every URI is declared by one manifest only
ConfigKeyIffConditionalDirOfUniqueUris ==
    UrisDeclaredOnce => C22_ConfigKeyIffConditionalDir

\* the template root holds no component.toml
NoManifests == tree = NoModuleDir \/ \A d \in DOMAIN tree : ~tree[d].toml

MaxBytes == 3       \* bytes in the readme file

\* "A", the two bytes of U+00E9, and a byte no UTF-8 text holds
ByteValues == {65, 195, 169, 255}

ReadmeContents == UNION {[1..n -> ByteValues] : n \in 0..MaxBytes}

InitReadme ==
    /\ \E u \in BuildURIs, content \in ReadmeContents \cup {NoReadme} :
            tree = [d \in Dirs |->
                        IF d = TheDir
                        THEN [toml |-> TRUE, uri |-> u, name |-> "n",
                              dependencies |-> <<>>, readme |-> content]
                        ELSE NoManifest]
    /\ todo = {}
    /\ lines = <<>>
    /\ bpc = "idle"
    /\ source = "missing"
    /\ store = "none"
    /\ ttl = {}
    /\ fs = {}
    /\ fsScanned = {}
    /\ graph = {}
    /\ op = "idle"
    /\ arg = <<>>
    /\ result = {}
    /\ raised = "none"
    /\ pc = "idle"
    /\ tasks = <<>>
    /\ walk = NoWalk
    /\ ManagerIdle

NextReadme ==
    \/ BuildStart
    \/ \E d \in Dirs : ProcessDir(d)
    \/ BuildEnd
    \/ bpc = "done" /\ Load
    \/ GetReadme(tree[TheDir].uri)
    \/ GetComponent(tree[TheDir].uri)
    \/ Return

SpecReadme == InitReadme /\ [][NextReadme]_vars

\* the UTF-8 bytes of a text of code points below U+0800
RECURSIVE utf8_encode(_)
utf8_encode(text) ==
    IF text = <<>> THEN <<>>
    ELSE (IF text[1] < 128 THEN <<text[1]>>
          ELSE <<192 + (text[1] \div 64), 128 + (text[1] % 64)>>)
         \o utf8_encode(Tail(text))

\* C24: get_readme of a component whose manifest names an existing readme
\* file returns the file's content, whatever bytes it holds, and get_readme
\* of a component without a readme returns None.
C24_ReadmeRoundTrip ==
    op = "get_readme" =>
        IF tree[TheDir].readme = NoReadme
        THEN raised = "none" /\ result = None
        ELSE raised = "none" /\ utf8_encode(result) = tree[TheDir].readme

\* the same for a readme file that holds UTF-8 text
ReadmeRoundTripOfUtf8Text ==
    (tree[TheDir].readme = NoReadme \/ Utf8Valid(tree[TheDir].readme))
        => C24_ReadmeRoundTrip

\* the encoded literal always decodes to the bytes of the file
Base64RoundTrip ==
    \A t \in ttl :
        t[2] = "readme" => b64decode(t[3][2]) = tree[TheDir].readme

(***************************************************************************)
(* The output of the run that lists the component directories in one fixed *)
(* order (components before services).                                     *)
(***************************************************************************)
RECURSIVE BlocksOf(_, _)
BlocksOf(tr, dirs) ==
    IF dirs = <<>> THEN <<>>
    ELSE (IF tr[Head(dirs)].toml
          THEN component_block(Head(dirs)[2], tr[Head(dirs)])
          ELSE <<>>)
         \o BlocksOf(tr, Tail(dirs))

FixedOrderOutput(tr) ==
    Header
    \o BlocksOf(tr, SetToSeq({d \in DOMAIN tr : d[1] = "components"}))
    \o BlocksOf(tr, SetToSeq({d \in DOMAIN tr : d[1] = "services"}))

\* C25: every run of the builder over a tree writes the same text, in
\* whatever order the component directories are listed: the text of any
\* finished run is the text of the run that lists them in the fixed order.
C25_OutputIndependentOfListingOrder ==
    bpc = "done" => lines = FixedOrderOutput(tree)

\* the statements written, as a set, do not depend on the listing order
GraphIndependentOfListingOrder ==
    bpc = "done" => ttl = Parse(FixedOrderOutput(tree))

(***************************************************************************)
(* Further claims under SpecPy.                                            *)
(***************************************************************************)
\* C26: the store answers get_dependents(uri) with the reverse closure: the
\* components v such that uri is in get_deps(v).
C26_GetDependentsIsReverseClosure ==
    op = "get_dependents" =>
        /\ raised = "none"
        /\ result = {v \in Components : arg[1] \in get_deps(graph, v)}

(***************************************************************************)
(* Listing and lookup (SpecBuild).                                         *)
(***************************************************************************)
\* C27: the URIs all_components() lists are the URIs for which
\* get_component(uri) returns a record.
C27_ListingAgreesWithLookup ==
    (op = "all_components" /\ bpc = "done") =>
        {r.uri : r \in result}
            = {u \in BuildURIs : component_rows(graph, u) # {}}

\* ---------------------------------------------------------------------
\* The manager's session (_admin/manager.py, SessionManager and _login)
\* ---------------------------------------------------------------------

\* how many times generate_password is called
MaxGenerations == 3

\* what a client may send: any secret ever drawn, the empty string, a
\* wrong guess and a string with a character outside ASCII
Sent ==
    {Password(n) : n \in 1..MaxGenerations}
        \cup {Token(n) : n \in 1..MaxGenerations}
        \cup {<<"", 0>>, <<"guess", 0>>, <<"caf\\u00e9", 0>>}

IsAscii(string) == string[1] # "caf\\u00e9"

\* the truth value of "if string"
Truthy(string) == string # NoSecret /\ string[1] # ""

\* secrets.compare_digest on two str: TypeError unless both are ASCII
compare_digest(a, b) ==
    IF IsAscii(a) /\ IsAscii(b) THEN Returned(a = b) ELSE Raised("TypeError")

\* create_session with the password check left out
create_session_any_password(_password, _token, given) == Returned(_token)

create_session(_password, _token, given) ==
    IF Truthy(_password)
    THEN LET same == compare_digest(given, _password)
         IN  IF same.raised # "none" THEN same
             ELSE IF same.value THEN Returned(_token)
             ELSE Returned(NoSecret)
    ELSE Returned(NoSecret)

validate_session(_token, given) ==
    IF ~Truthy(_token) THEN Returned(FALSE) ELSE compare_digest(given, _token)

InitSession ==
    /\ op = "idle"
    /\ arg = <<>>
    /\ result = {}
    /\ raised = "none"
    /\ ttl = {}
    /\ fs = {}
    /\ fsScanned = {}
    /\ graph = {}
    /\ pc = "idle"
    /\ tasks = <<>>
    /\ walk = NoWalk
    /\ ManagerIdle
    /\ tree = <<>>
    /\ todo = {}
    /\ lines = <<>>
    /\ bpc = "idle"
    /\ source = "missing"
    /\ store = "none"

GeneratePassword ==
    /\ op = "idle"
    /\ drawn < MaxGenerations
    /\ drawn' = drawn + 1
    /\ password' = Password(drawn + 1)
    /\ token' = Token(drawn + 1)
    /\ op' = "generate_password"
    /\ arg' = <<>>
    /\ result' = password'
    /\ raised' = "none"
    /\ UNCHANGED <<cookies, installed_plugins, saved, heap, exceptions,
                   exc_id_counter>>
    /\ UNCHANGED <<bvars, ttl, fs, fsScanned, graph, pc, tasks, walk>>

\* create_session as _login calls it: a token that comes back is set as
\* the session cookie
CreateSession(given) ==
    /\ op = "idle"
    /\ op' = "create_session"
    /\ arg' = <<given>>
    /\ LET did == create_session(password, token, given)
       IN  /\ result' = did.value
           /\ raised' = did.raised
           /\ cookies' = IF did.raised = "none" /\ Truthy(did.value)
                         THEN cookies \cup {did.value}
                         ELSE cookies
    /\ UNCHANGED <<token, password, drawn, installed_plugins, saved, heap,
                   exceptions, exc_id_counter>>
    /\ UNCHANGED <<bvars, ttl, fs, fsScanned, graph, pc, tasks, walk>>

ValidateSession(given) ==
    /\ op = "idle"
    /\ op' = "validate_session"
    /\ arg' = <<given>>
    /\ LET did == validate_session(token, given)
       IN  /\ result' = did.value
           /\ raised' = did.raised
    /\ UNCHANGED <<mvars, bvars, ttl, fs, fsScanned, graph, pc, tasks, walk>>

NextSession ==
    \/ GeneratePassword
    \/ \E given \in Sent : CreateSession(given)
    \/ \E given \in Sent : ValidateSession(given)
    \/ Return

SpecSession == InitSession /\ [][NextSession]_vars

\* C28: validate_session(t) is true only when a password has been
\* generated and t is the token of the most recent generate_password;
\* create_session(p) returns a token, the current one, only when p is the
\* most recent password; before the first generate_password both reject
\* every input; a token handed out before a later generate_password is no
\* longer valid.
C28_OnlyCurrentSecretsAccepted ==
    /\ drawn = 0 => token = NoSecret /\ password = NoSecret
    /\ drawn > 0 => token = Token(drawn) /\ password = Password(drawn)
    /\ cookies \subseteq {Token(n) : n \in 1..drawn}
    /\ (op = "validate_session" /\ raised = "none") =>
            (result <=> (drawn > 0 /\ arg[1] = Token(drawn)))
    /\ (op = "validate_session" /\ raised # "none") => drawn > 0
    /\ (op = "create_session" /\ raised = "none") =>
            /\ result \in {NoSecret, Token(drawn)}
            /\ result # NoSecret <=> (drawn > 0 /\ arg[1] = Password(drawn))
    /\ (op = "create_session" /\ raised # "none") => drawn > 0
    /\ (op = "validate_session" /\ arg[1] \in cookies /\ arg[1] # token) =>
            (raised = "none" /\ ~result)

\* a cookie set at a login under the first password is presented after
\* generate_password has run again, and is refused
C28_Witness ==
    /\ op = "validate_session"
    /\ drawn = 2
    /\ arg[1] = Token(1)
    /\ arg[1] \in cookies
    /\ raised = "none"
    /\ ~result

\* ---------------------------------------------------------------------
\* Installing plugins (_admin/manager.py, install_plugin and
\* ManagerConfig.save)
\* ---------------------------------------------------------------------

\* how long the list of installed plugins may grow
MaxInstalls == 3

\* the names repo.list_plugins() finds, and the names a request may carry
Plugins == {"auth", "db", "mail"}
Requested == Plugins \cup {"ghost"}

\* the return codes of the copier run
ReturnCodes == {0, 1}

\* ManagerConfig.load: the list of pyproject.toml, empty when it has none
InitPlugins ==
    /\ op = "idle"
    /\ arg = <<>>
    /\ result = {}
    /\ raised = "none"
    /\ ttl = {}
    /\ fs = {}
    /\ fsScanned = {}
    /\ graph = {}
    /\ pc = "idle"
    /\ tasks = <<>>
    /\ walk = NoWalk
    /\ token = NoSecret
    /\ password = NoSecret
    /\ drawn = 0
    /\ cookies = {}
    /\ installed_plugins \in {<<>>, <<"auth">>}
    /\ saved = installed_plugins
    /\ heap = <<>>
    /\ exceptions = <<>>
    /\ exc_id_counter = 0
    /\ tree = <<>>
    /\ todo = {}
    /\ lines = <<>>
    /\ bpc = "idle"
    /\ source = "missing"
    /\ store = "none"

\* POST /api/plugins/{name}/install, once require_auth has let it pass
InstallPlugin(name) ==
    /\ op = "idle"
    /\ Len(installed_plugins) < MaxInstalls
    /\ op' = "install_plugin"
    /\ arg' = <<name>>
    /\ IF name \notin Plugins
       THEN /\ raised' = "HTTPException"
            /\ result' = None
            /\ UNCHANGED <<installed_plugins, saved>>
       ELSE /\ raised' = "none"
            /\ \E returncode \in ReturnCodes :
                IF returncode = 0
                THEN /\ installed_plugins' = Append(installed_plugins, name)
                     /\ saved' = installed_plugins'
                     /\ result' = "PluginCard"
                ELSE /\ result' = "Alert"
                     /\ UNCHANGED <<installed_plugins, saved>>
    /\ UNCHANGED <<token, password, drawn, cookies, heap, exceptions,
                   exc_id_counter>>
    /\ UNCHANGED <<bvars, ttl, fs, fsScanned, graph, pc, tasks, walk>>

NextPlugins ==
    \/ \E name \in Requested : InstallPlugin(name)
    \/ Return

SpecPlugins == InitPlugins /\ [][NextPlugins]_vars

\* no name occurs twice in the list
NoRepeats(list) ==
    \A i, j \in 1..Len(list) : list[i] = list[j] => i = j

\* a request appends its name and saves when the plugin exists and the
\* install command returned 0, and otherwise changes neither the list nor
\* the saved configuration
InstallAppendsOnlyOnSuccess ==
    [][/\ op' = "install_plugin" =>
            \/ /\ arg'[1] \in Plugins
               /\ raised' = "none"
               /\ result' = "PluginCard"
               /\ installed_plugins' = Append(installed_plugins, arg'[1])
               /\ saved' = installed_plugins'
            \/ /\ arg'[1] \notin Plugins \/ result' = "Alert"
               /\ UNCHANGED <<installed_plugins, saved>>
       /\ op' # "install_plugin" => UNCHANGED <<installed_plugins, saved>>]_vars

\* C29: install_plugin appends the name to installed_plugins and saves the
\* configuration only when the plugin exists and the install command
\* returned 0; an unknown plugin or a failed install leaves both as they
\* were; no plugin name is in installed_plugins more than once.
C29_InstalledOnceOnSuccess ==
    /\ InstallAppendsOnlyOnSuccess
    /\ [](NoRepeats(installed_plugins) /\ NoRepeats(saved))

\* ---------------------------------------------------------------------
\* The in-memory store of exceptions (services/observe/store.py)
\* ---------------------------------------------------------------------

\* how many ExceptionRecord objects are made, how many inserts are done
MaxRecords == 2
MaxInserts == 3

\* An ExceptionRecord object is its position in heap, which holds the id
\* field of each object; the list of the store holds objects, and so may
\* hold one object more than once.  Null is get_exception's None.
Null == 0

\* the ids a caller writes into a record it makes
SuppliedIds == {0, 2}

InitObserve ==
    /\ op = "idle"
    /\ arg = <<>>
    /\ result = {}
    /\ raised = "none"
    /\ ttl = {}
    /\ fs = {}
    /\ fsScanned = {}
    /\ graph = {}
    /\ pc = "idle"
    /\ tasks = <<>>
    /\ walk = NoWalk
    /\ ManagerIdle
    /\ tree = <<>>
    /\ todo = {}
    /\ lines = <<>>
    /\ bpc = "idle"
    /\ source = "missing"
    /\ store = "none"

\* the first object of the list whose id is exc_id
get_exception(objects, list, exc_id) ==
    IF \E i \in 1..Len(list) : objects[list[i]].id = exc_id
    THEN list[CHOOSE i \in 1..Len(list) :
                 /\ objects[list[i]].id = exc_id
                 /\ \A j \in 1..(i - 1) : objects[list[j]].id # exc_id]
    ELSE Null

\* the caller makes a record, with an id of its choice
ExceptionRecord(id) ==
    /\ op = "idle"
    /\ Len(heap) < MaxRecords
    /\ heap' = Append(heap, [id |-> id])
    /\ op' = "ExceptionRecord"
    /\ arg' = <<id>>
    /\ result' = Len(heap')
    /\ raised' = "none"
    /\ UNCHANGED <<token, password, drawn, cookies, installed_plugins, saved,
                   exceptions, exc_id_counter>>
    /\ UNCHANGED <<bvars, ttl, fs, fsScanned, graph, pc, tasks, walk>>

\* insert_exception that leaves the id the caller supplied
InsertExceptionKeepingId(exc) ==
    /\ op = "idle"
    /\ exc_id_counter < MaxInserts
    /\ exc_id_counter' = exc_id_counter + 1
    /\ exceptions' = Append(exceptions, exc)
    /\ op' = "insert_exception"
    /\ arg' = <<exc>>
    /\ result' = Null
    /\ raised' = "none"
    /\ UNCHANGED <<token, password, drawn, cookies, installed_plugins, saved,
                   heap>>
    /\ UNCHANGED <<bvars, ttl, fs, fsScanned, graph, pc, tasks, walk>>

InsertException(exc) ==
    /\ op = "idle"
    /\ exc_id_counter < MaxInserts
    /\ exc_id_counter' = exc_id_counter + 1
    /\ heap' = [heap EXCEPT ![exc].id = exc_id_counter']
    /\ exceptions' = Append(exceptions, exc)
    /\ op' = "insert_exception"
    /\ arg' = <<exc>>
    /\ result' = Null
    /\ raised' = "none"
    /\ UNCHANGED <<token, password, drawn, cookies, installed_plugins,
                   saved>>
    /\ UNCHANGED <<bvars, ttl, fs, fsScanned, graph, pc, tasks, walk>>

GetException(exc_id) ==
    /\ op = "idle"
    /\ op' = "get_exception"
    /\ arg' = <<exc_id>>
    /\ result' = get_exception(heap, exceptions, exc_id)
    /\ raised' = "none"
    /\ UNCHANGED <<mvars, bvars, ttl, fs, fsScanned, graph, pc, tasks, walk>>

NextObserve ==
    \/ \E id \in SuppliedIds : ExceptionRecord(id)
    \/ \E exc \in 1..Len(heap) : InsertException(exc)
    \/ \E exc_id \in 0..(MaxInserts + 1) : GetException(exc_id)
    \/ Return

SpecObserve == InitObserve /\ [][NextObserve]_vars

\* the id field of the n-th stored exception
StoredId(n) == heap[exceptions[n]].id

\* the stored exceptions have the ids 1, 2, 3, ... in the order of their
\* insertion, and get_exception finds the n-th of them under n and nothing
\* under any other id
NumberedInInsertionOrder ==
    /\ \A i, j \in 1..Len(exceptions) : StoredId(i) = StoredId(j) => i = j
    /\ \A n \in 1..Len(exceptions) : StoredId(n) = n
    /\ op = "get_exception" =>
            result = IF arg[1] \in 1..Len(exceptions)
                     THEN exceptions[arg[1]]
                     ELSE Null

\* C30 as stated: after any sequence of insert_exception calls the stored
\* exceptions have pairwise distinct ids, 1, 2, 3, ... in insertion order
\* whatever id the caller supplied, and get_exception(id) returns the
\* record inserted with that id, or None when there is none.
C30_IdsDistinctAndSequential == NumberedInInsertionOrder

\* the n-th entry of the list is the last entry of its object
LastOfItsObject(n) ==
    \A later \in (n + 1)..Len(exceptions) : exceptions[later] # exceptions[n]

\* C30, amended: the counter is the number of inserts; each object of the
\* list carries the number of its latest insert, so that inserts of
\* objects not yet in the store give the ids 1, 2, 3, ... in insertion
\* order whatever id the caller supplied, while an object inserted again
\* stands in the list twice under its new id; get_exception(id) returns
\* the object whose latest insert was the id-th, and None when there is
\* none.
C30_IdIsNumberOfLatestInsert ==
    /\ exc_id_counter = Len(exceptions)
    /\ \A n \in 1..Len(exceptions) :
            LastOfItsObject(n) => StoredId(n) = n
    /\ NoRepeats(exceptions) => NumberedInInsertionOrder
    /\ op = "get_exception" =>
            result = IF arg[1] \in 1..Len(exceptions) /\ LastOfItsObject(arg[1])
                     THEN exceptions[arg[1]]
                     ELSE Null

\* two records made with the ids 2 and 0 are stored under 1 and 2, and the
\* second is looked up
C30_Witness ==
    /\ op = "get_exception"
    /\ arg = <<2>>
    /\ exceptions = <<1, 2>>
    /\ heap = <<[id |-> 1], [id |-> 2]>>
    /\ result = 2


============================================================================
